---- MODULE Spec2Model ----
(***************************************************************************)
(* Model of Estrazione_firma_digitale.py: the Streamlit script that        *)
(* unpacks uploaded .zip / .p7m items, extracts the payload of every       *)
(* signed envelope, unpacks and flattens nested archives, cleans the       *)
(* working tree and packages it into one output archive.                   *)
(*                                                                         *)
(* A file name is a sequence of tokens ("doc", ".", "pdf"); a path is a    *)
(* sequence of names; the file system is a function from the existing      *)
(* paths to "DIR" or to the id of the file's content (a blob).             *)
(***************************************************************************)
EXTENDS Integers, Sequences, FiniteSets, TLC

\* ------------------------------------------------------------------ bounds
MaxUploads == 2
MaxTime == 2

\* ------------------------------------------------------------------- names
DOT == "."
DIR == "DIR"
NoPath == << <<"<none>">> >>

Lower(t) == CASE t = "ZIP" -> "zip" [] t = "P7M" -> "p7m" [] OTHER -> t

LowerName(n) == [i \in DOMAIN n |-> Lower(n[i])]

\* index of the last "." of a name, 0 when it has none (str.rfind)
LastDot(n) ==
  LET dots == {i \in DOMAIN n : n[i] = DOT}
  IN IF dots = {} THEN 0 ELSE CHOOSE i \in dots : \A j \in dots : j <= i

\* pathlib PurePath.suffix: the last dot must be neither first nor last
Suffix(n) ==
  LET i == LastDot(n)
  IN IF i > 1 /\ i < Len(n) THEN SubSeq(n, i, Len(n)) ELSE << >>

\* pathlib PurePath.stem
Stem(n) ==
  LET i == LastDot(n)
  IN IF i > 1 /\ i < Len(n) THEN SubSeq(n, 1, i - 1) ELSE n

SuffixLower(n) == LowerName(Suffix(n))

ZipSuffix == <<DOT, "zip">>
P7mSuffix == <<DOT, "p7m">>

\* pathlib with_suffix(".zip")
WithSuffixZip(n) == Stem(n) \o ZipSuffix

\* fnmatch of "*.<ext>" against a name, case-sensitive as on POSIX
GlobMatch(n, ext) ==
  Len(n) >= 2 /\ n[Len(n) - 1] = DOT /\ n[Len(n)] = ext

\* f"{archive_path.stem}_unzipped"
UnzippedName(n) == Stem(n) \o <<"_unzipped">>

\* str.lower().endswith("zip")
EndsWithZip(n) == Len(n) >= 1 /\ Lower(n[Len(n)]) = "zip"

\* d.name[:-3] of a name whose last token is the three letters of "zip"
DropLast3(n) == SubSeq(n, 1, Len(n) - 1)

\* ------------------------------------------------------------------- paths
Parent(p) == SubSeq(p, 1, Len(p) - 1)
Name(p) == p[Len(p)]
IsPrefix(p, q) == Len(p) <= Len(q) /\ SubSeq(q, 1, Len(p)) = p
StrictlyBelow(q, p) == Len(p) < Len(q) /\ IsPrefix(p, q)
\* Path / name; joining the empty string gives the path itself
Join(p, n) == IF n = << >> THEN p ELSE Append(p, n)
RelativeTo(q, p) == SubSeq(q, Len(p) + 1, Len(q))

\* ------------------------------------------------------------- file system
Exists(f, p) == p \in DOMAIN f
IsDir(f, p) == p \in DOMAIN f /\ f[p] = DIR
IsFile(f, p) == p \in DOMAIN f /\ f[p] # DIR
Below(f, p) == {q \in DOMAIN f : StrictlyBelow(q, p)}
Children(f, p) == {q \in DOMAIN f : Len(q) = Len(p) + 1 /\ IsPrefix(p, q)}
FilesBelow(f, p) == {q \in Below(f, p) : f[q] # DIR}
DirsBelow(f, p) == {q \in Below(f, p) : f[q] = DIR}

Restrict(f, S) == [q \in S |-> f[q]]

\* Path.unlink(missing_ok=True), and unlink inside try/except: a file goes,
\* anything else stays
Unlink(f, p) == IF IsFile(f, p) THEN Restrict(f, DOMAIN f \ {p}) ELSE f

\* shutil.rmtree(p, ignore_errors=True)
RmTree(f, p) == Restrict(f, {q \in DOMAIN f : ~IsPrefix(p, q)})

\* Path.rmdir inside try/except: only an empty directory goes
RmDir(f, p) ==
  IF IsDir(f, p) /\ Children(f, p) = {} THEN Restrict(f, DOMAIN f \ {p}) ELSE f

\* tempfile.mkdtemp / Path.mkdir(exist_ok=True)
MkDir(f, p) == IF Exists(f, p) THEN f ELSE (p :> DIR) @@ f

\* open(p, "wb").write(b): creates or overwrites a file
WriteFile(f, p, b) == (p :> b) @@ Restrict(f, DOMAIN f \ {p})

\* ------------------------------------------------------ contents (inputs)
\* What a file holds: a leaf document, a ZIP archive (its members by
\* relative path) or a signed envelope (its payload, what the three openssl
\* calls return for it, and its certificate's subject and dates).
Leaf == [type |-> "leaf", entries |-> << >>, payload |-> "", res1 |-> FALSE,
         res2 |-> FALSE, res3 |-> FALSE, parse |-> FALSE, subject |-> << >>,
         nb |-> 0, na |-> 0]
Zip(e) == [Leaf EXCEPT !.type = "zip", !.entries = e]
AliceCN == ("CN" :> "Alice") @@ ("SERIALNUMBER" :> "123")
BobSN == ("SN" :> "Bob") @@ ("emailAddress" :> "bob@x")
Envelope(pl, s) == [type |-> "p7m", entries |-> << >>, payload |-> pl,
                    res1 |-> TRUE, res2 |-> TRUE, res3 |-> TRUE, parse |-> TRUE,
                    subject |-> s, nb |-> 1, na |-> 1]

Content(b) ==
  CASE b = "eDoc" -> Envelope("pdf", AliceCN)
    [] b = "eDoc2" -> Envelope("pdf", BobSN)
    [] b = "eBad" -> [Envelope("pdf", AliceCN) EXCEPT !.res1 = FALSE]
    [] b = "eNoCert" -> [Envelope("pdf", AliceCN) EXCEPT !.res2 = FALSE]
    [] b = "eNoInfo" -> [Envelope("pdf", AliceCN) EXCEPT !.res3 = FALSE]
    [] b = "eNoDate" -> [Envelope("pdf", AliceCN) EXCEPT !.parse = FALSE]
    [] b = "eZip" -> Envelope("zDoc", AliceCN)
    [] b = "eZip2" -> Envelope("zDoc2", BobSN)
    [] b = "eNest" -> Envelope("zNest", AliceCN)
    [] b = "eDeep" -> Envelope("zDeep", AliceCN)
    [] b = "eSame" -> Envelope("zSame", AliceCN)
    [] b = "zDoc" -> Zip(<< <<"doc", DOT, "pdf">> >> :> "pdf")
    [] b = "zDoc2" -> Zip(<< <<"doc2", DOT, "pdf">> >> :> "pdf")
    [] b = "zNest" -> Zip((<< <<"inner", DOT, "p7m">> >> :> "eDoc")
                          @@ (<< <<"x", DOT, "txt">> >> :> "txt"))
    [] b = "zDeep" -> Zip(<< <<"a">>, <<"b">>, <<"f", DOT, "txt">> >> :> "txt")
    [] b = "zSame" -> Zip(<< <<"a">>, <<"a">>, <<"f", DOT, "txt">> >> :> "txt")
    [] b = "zB" -> Zip((<< <<"a", DOT, "p7m">> >> :> "eZip")
                       @@ (<< <<"b", DOT, "p7m">> >> :> "eZip2"))
    [] b = "zFail" -> Zip((<< <<"bad", DOT, "p7m">> >> :> "eBad")
                          @@ (<< <<"fake", DOT, "zip">> >> :> "txt")
                          @@ (<< <<"arch", DOT, "pdf">> >> :> "zDoc")
                          @@ (<< <<"doc", DOT, "pdf">> >> :> "pdf"))
    [] b = "zRec" -> Zip((<< <<"a", DOT, "zip", DOT, "p7m">> >> :> "eZip")
                         @@ (<< <<"a">>, <<"inner", DOT, "p7m">> >> :> "eBad"))
    [] b = "zN" -> Zip(<< <<"a", DOT, "p7m">> >> :> "eNest")
    [] b = "zWrap" -> Zip(<< <<"w">>, <<"a", DOT, "pdf", DOT, "p7m">> >> :> "eDoc")
    [] b = "zDirs" -> Zip((<< <<"zip">>, <<"f", DOT, "txt">> >> :> "txt")
                          @@ (<< <<"a", "zip">>, <<"g", DOT, "txt">> >> :> "txt")
                          @@ (<< <<"a">>, <<"h", DOT, "txt">> >> :> "txt")
                          @@ (<< <<"b", "zip">>, <<"ZIP">>, <<"q", DOT, "txt">> >> :> "txt")
                          @@ (<< <<"k", DOT, "txt">> >> :> "txt"))
    [] OTHER -> Leaf

\* the items a user may upload: (file name, content)
Item(n, b) == [name |-> n, blob |-> b]
Candidates ==
  { Item(<<"up", DOT, "zip">>, "zB"),
    Item(<<"f", DOT, "zip">>, "zFail"),
    Item(<<"n", DOT, "zip">>, "zN"),
    Item(<<"r", DOT, "zip">>, "zRec"),
    Item(<<"w", DOT, "zip">>, "zWrap"),
    Item(<<"c", DOT, "zip">>, "zDirs"),
    Item(<<"junk", DOT, "zip">>, "txt"),
    Item(<<"doc", DOT, "pdf", DOT, "p7m">>, "eDoc"),
    Item(<<"x", DOT, "p7m">>, "eBad"),
    Item(<<"nc", DOT, "p7m">>, "eNoCert"),
    Item(<<"nd", DOT, "p7m">>, "eNoDate"),
    Item(<<"z", DOT, "p7m">>, "eZip"),
    Item(<<"d", DOT, "p7m">>, "eDeep"),
    Item(<<"s", DOT, "p7m">>, "eSame"),
    Item(<<"readme", DOT, "txt">>, "txt") }

\* ------------------------------------------------------------ zipfile
\* zipfile.ZipFile(path): only a ZIP opens; anything else is BadZipFile
IsZipBlob(b) == Content(b).type = "zip"

\* the directories extractall makes: each member's parents, and the members
\* that are directories
ExtractDirs(dest, e) ==
  (UNION {{dest \o SubSeq(r, 1, k) : k \in 1..(Len(r) - 1)} : r \in DOMAIN e})
  \cup {dest \o r : r \in {x \in DOMAIN e : e[x] = DIR}}
ExtractFiles(dest, e) == {dest \o r : r \in {x \in DOMAIN e : e[x] # DIR}}

\* ZipFile.extractall fails with an OSError where a member's directory is
\* an existing file or a member file is an existing directory
ExtractConflict(f, dest, e) ==
  \/ \E d \in ExtractDirs(dest, e) : IsFile(f, d)
  \/ \E t \in ExtractFiles(dest, e) : IsDir(f, t)

\* ZipFile.extractall(dest): members' directories are created, member files
\* are written over what is there
ExtractAll(f, dest, e) ==
  LET ds == ExtractDirs(dest, e)
      fl == ExtractFiles(dest, e)
  IN [q \in DOMAIN f \cup ds \cup fl |->
        IF q \in fl THEN e[RelativeTo(q, dest)]
        ELSE IF q \in ds THEN DIR ELSE f[q]]

\* ------------------------------------------------- extract_signed_content
CandidatoRdn == <<"CN", "SN", "UID", "emailAddress", "SERIALNUMBER">>

\* the first RDN of the priority list that the subject holds
SignerName(subject) ==
  LET hits == {i \in DOMAIN CandidatoRdn : CandidatoRdn[i] \in DOMAIN subject}
  IN IF hits = {} THEN "Sconosciuto"
     ELSE subject[CandidatoRdn[CHOOSE i \in hits : \A j \in hits : i <= j]]

\* a variant whose upper bound is exclusive
IsValidExclusive(nb, t, na) == nb <= t /\ t < na

\* is_valid = (not_before <= now <= not_after)
IsValid(nb, t, na) == nb <= t /\ t <= na

\* output_file.rename(new_zip) inside try/except: a directory in the way
\* makes it fail, and the payload keeps its name
RenamePayload(f, out, new) ==
  IF IsDir(f, new) THEN f
  ELSE WriteFile(Restrict(f, DOMAIN f \ {out}), new, f[out])

\* extract_signed_content(p7m_file_path, output_dir) at time t. kind is
\* "none" (None, "", False), "ok" (a payload path is returned) or "raise"
\* (strptime's ValueError leaves the function).
ExtractSigned(f, p, outdir, t) ==
  LET stem == Stem(Name(p))
      out == Append(outdir, stem)
      c == IF IsFile(f, p) THEN Content(f[p]) ELSE Leaf
      f1 == WriteFile(f, out, c.payload)
      new == Append(outdir, WithSuffixZip(stem))
      isZip == IsZipBlob(c.payload)
      f2 == IF isZip THEN RenamePayload(f1, out, new) ELSE f1
      base == [kind |-> "ok", fs |-> f1, payload |-> out, blob |-> c.payload,
               signer |-> "Sconosciuto", valid |-> FALSE, dated |-> FALSE,
               nb |-> c.nb, na |-> c.na, t |-> t]
  IN IF c.type # "p7m" \/ ~c.res1 \/ IsDir(f, out)
       THEN [base EXCEPT !.kind = "none", !.fs = f, !.payload = NoPath, !.signer = ""]
     ELSE IF ~c.res2 \/ ~c.res3 THEN base
     ELSE IF ~c.parse
       THEN [base EXCEPT !.kind = "raise", !.signer = SignerName(c.subject)]
     ELSE [base EXCEPT !.fs = f2,
                       !.payload = IF isZip /\ ~IsDir(f1, new) THEN new ELSE out,
                       !.signer = SignerName(c.subject),
                       !.valid = IsValid(c.nb, t, c.na),
                       !.dated = TRUE]

\* -------------------------------------------- recursive_unpack_and_flatten
\* list(directory.rglob("*.<ext>")): files and directories alike
RGlob(f, dir, ext) == {q \in Below(f, dir) : GlobMatch(Name(q), ext)}

\* rglob walks top-down: what a directory holds comes before what the
\* directories below it hold; the order within one directory is the
\* environment's. The elements of a snapshot that may come next:
NextOf(todo) ==
  {p \in todo : ~\E q \in todo : StrictlyBelow(Parent(p), Parent(q))}

ExtractFolder(a) == Append(Parent(a), UnzippedName(Name(a)))

\* lines 133-137: a file in the place of the extraction folder goes, then
\* the folder is made
PrepareFolder(f, ef) == MkDir(IF IsFile(f, ef) THEN Unlink(f, ef) ELSE f, ef)

\* a variant that leaves the unpacked archive in place
ArchiveUnlinkSkipped(f, a) == f

\* archive_path.unlink(missing_ok=True) after the extraction
ArchiveUnlink(f, a) == Unlink(f, a)

\* the flatten rule applies: one entry, and it is a directory
LoneSub(f, ef) ==
  LET items == Children(f, ef)
  IN IF Cardinality(items) = 1 /\ (\A x \in items : f[x] = DIR) THEN items ELSE {}

\* shutil.move(sub_item, extract_folder) raises shutil.Error where the
\* folder already holds that name: the lone sub-directory's own name
MoveClash(f, lone) == {x \in Children(f, lone) : Name(x) = Name(lone)}

\* the entries S of lone (and all below them) moved up into ef
MoveUp(f, ef, lone, S) ==
  LET To(q) == IF \E x \in S : IsPrefix(x, q)
               THEN ef \o RelativeTo(q, lone) ELSE q
      dom == {To(q) : q \in DOMAIN f}
  IN [q2 \in dom |-> f[CHOOSE q \in DOMAIN f : To(q) = q2]]

\* lines 153-158 where no move clashes: the collapse, done once
Flatten(f, ef) ==
  LET ls == LoneSub(f, ef)
  IN IF ls = {} THEN f
     ELSE LET lone == CHOOSE x \in ls : TRUE
          IN RmDir(MoveUp(f, ef, lone, Children(f, lone)), lone)

\* ----------------------------------------------------------- clean-up
RECURSIVE CleanupP7mLoop(_, _)
\* the loop of cleanup_unprocessed_p7m_dirs over all_dirs, deepest first
CleanupP7mLoop(f, todo) ==
  IF todo = {} THEN f
  ELSE LET d == CHOOSE x \in todo : \A y \in todo : Len(y) <= Len(x)
           files == {q \in Children(f, d) : f[q] # DIR}
           hit == files # {} /\ \A q \in files : SuffixLower(Name(q)) = P7mSuffix
           f1 == IF hit THEN RmDir(Restrict(f, DOMAIN f \ files), d) ELSE f
       IN CleanupP7mLoop(f1, todo \ {d})

cleanup_unprocessed_p7m_dirs(f, root) == CleanupP7mLoop(f, DirsBelow(f, root))

\* sibling = d.parent / d.name[:-3]
SiblingOf(d) == Join(Parent(d), DropLast3(Name(d)))

\* lines 283-288: whether directory d is removed
ExtraZipDir(f, d) == EndsWithZip(Name(d)) /\ IsDir(f, SiblingOf(d))

RECURSIVE CleanupZipLoop(_, _)
\* the loop of cleanup_extra_zip_named_dirs over all_dirs, deepest first
CleanupZipLoop(f, todo) ==
  IF todo = {} THEN f
  ELSE LET d == CHOOSE x \in todo : \A y \in todo : Len(y) <= Len(x)
           f1 == IF ExtraZipDir(f, d) THEN RmTree(f, d) ELSE f
       IN CleanupZipLoop(f1, todo \ {d})

cleanup_extra_zip_named_dirs(f, root) == CleanupZipLoop(f, DirsBelow(f, root))

\* ------------------------------------------------- the termination measure
RECURSIVE Weight(_, _)
RECURSIVE SumWeight(_, _)
\* the envelopes and archives a file stands for: itself when its name makes
\* the program consume it, and those it encloses
Weight(n, b) ==
  LET c == Content(b)
      deep == c.res2 /\ c.res3 /\ c.parse /\ IsZipBlob(c.payload)
      pn == IF deep THEN WithSuffixZip(Stem(n)) ELSE Stem(n)
  IN IF GlobMatch(n, "p7m")
       THEN 1 + (IF c.type = "p7m" /\ c.res1 THEN Weight(pn, c.payload) ELSE 0)
     ELSE IF GlobMatch(n, "zip")
       THEN 1 + (IF c.type = "zip" THEN SumWeight(c.entries, DOMAIN c.entries) ELSE 0)
     ELSE 0
SumWeight(e, S) ==
  IF S = {} THEN 0
  ELSE LET r == CHOOSE x \in S : TRUE
       IN (IF e[r] = DIR THEN 0 ELSE Weight(Name(r), e[r])) + SumWeight(e, S \ {r})

Measure(f) == SumWeight(f, DOMAIN f)

\* ------------------------------------------------------------------ state
VARIABLES
  fs,       \* the file system: root_temp, the temporary directories
  uploads,  \* uploaded_files: a sequence of (name, content)
  idx,      \* position of the for loop over uploaded_files
  pc,       \* position of the script within the handling of one item
  stack,    \* the calls of recursive_unpack_and_flatten / process_directory_for_p7m
  calls,    \* the calls of extract_signed_content for the current item, with what each gave
  output,   \* the entries written to the output archive
  now,      \* the clock read by datetime.utcnow()
  exc,      \* the exception that ended the script, "" when none
  prev,     \* root_temp's tree as it was when the current item's handling began
  payload,  \* payload_path of the uploaded .p7m branch
  subds,    \* the entries of root_temp still to visit (uploaded .p7m branch)
  base      \* base_dir of the uploaded .zip branch

vars == <<fs, uploads, idx, pc, stack, calls, output, now, exc, prev, payload,
          subds, base>>

ROOT == << <<"combined_">> >>
TMPZ == << <<"zip_unpack_">> >>
TMPS == << <<"single_p7m_">> >>
OutputFilename == <<"all_extracted", DOT, "zip">>

Frame(fn, dir, todo, f) ==
  [fn |-> fn, dir |-> dir, todo |-> todo, phase |-> "loop",
   payload |-> NoPath, entry |-> Measure(f)]

Top == stack[Len(stack)]
SetTop(fr) == [stack EXCEPT ![Len(stack)] = fr]
Running == stack # << >>

\* the loop goes on to its next element
Continue(f, fr) ==
  fs' = f /\ stack' = SetTop(fr) /\ pc' = pc /\ exc' = exc
\* a call: the callee's frame goes on the stack
Call(f, fr, new) ==
  fs' = f /\ stack' = Append(SetTop(fr), new) /\ pc' = pc /\ exc' = exc
\* an exception nothing catches ends the script
Abort(e, f) ==
  fs' = f /\ stack' = << >> /\ pc' = "aborted" /\ exc' = e

CallRec(p, b, r) ==
  [path |-> p, env |-> b, kind |-> r.kind, payload |-> r.payload,
   blob |-> r.blob, signer |-> r.signer, valid |-> r.valid, dated |-> r.dated,
   nb |-> r.nb, na |-> r.na, t |-> r.t, kept |-> IsFile(r.fs, r.payload)]

\* the clock is read only where the dates were parsed
ClockOk(r, t) == (r.kind = "ok" /\ r.dated) \/ t = now

UploadSeqs ==
  UNION {{s \in [1..n -> Candidates] : \A i, j \in 1..n : i # j => s[i] # s[j]}
         : n \in 1..MaxUploads}

\* uploaded_files is non-empty and root_temp has been made (lines 305-307)
Init ==
  /\ uploads \in UploadSeqs
  /\ now = 0
  /\ fs = (ROOT :> DIR)
  /\ idx = 1
  /\ pc = "next"
  /\ stack = << >>
  /\ calls = {}
  /\ output = << >>
  /\ exc = ""
  /\ prev = << >>
  /\ payload = NoPath
  /\ subds = {}
  /\ base = NoPath

Cur == uploads[idx]
HasItem == pc = "next" /\ idx <= Len(uploads)
RootTree(f) == Restrict(f, Below(f, ROOT))

\* --------------------------------------------- recursive_unpack_and_flatten
\* one iteration of the loop over the archives, up to the recursive call
UnpackStep ==
  /\ Running /\ Top.fn = "unpack" /\ Top.todo # {}
  /\ \E a \in NextOf(Top.todo) :
       LET rest == [Top EXCEPT !.todo = @ \ {a}]
           ef == ExtractFolder(a)
           f2 == PrepareFolder(fs, ef)
       IN IF ~IsFile(fs, a) THEN Continue(fs, rest)
          ELSE IF ~IsZipBlob(fs[a]) THEN Continue(Unlink(f2, a), rest)
          ELSE LET e == Content(fs[a]).entries
               IN IF ExtractConflict(f2, ef, e) THEN Abort("OSError", f2)
                  ELSE LET f4 == ArchiveUnlink(ExtractAll(f2, ef, e), a)
                           ls == LoneSub(f4, ef)
                           lone == CHOOSE x \in ls : TRUE
                           clash == IF ls = {} THEN {} ELSE MoveClash(f4, lone)
                           f5 == Flatten(f4, ef)
                       IN IF clash # {}
                            THEN \E S \in SUBSET (Children(f4, lone) \ clash) :
                                   Abort("shutil.Error", MoveUp(f4, ef, lone, S))
                          ELSE Call(f5, rest, Frame("unpack", ef, RGlob(f5, ef, "zip"), f5))
  /\ UNCHANGED <<uploads, idx, calls, output, now, prev, payload, subds, base>>

\* the loop is over: the function returns
UnpackReturn ==
  /\ Running /\ Top.fn = "unpack" /\ Top.todo = {}
  /\ stack' = SubSeq(stack, 1, Len(stack) - 1)
  /\ UNCHANGED <<fs, uploads, idx, pc, calls, output, now, exc, prev, payload,
                 subds, base>>

\* ------------------------------------------------ process_directory_for_p7m
\* lines 200-216: one envelope of the snapshot, up to the call that unpacks
ProcStep ==
  /\ Running /\ Top.fn = "proc" /\ Top.phase = "loop" /\ Top.todo # {}
  /\ \E p \in NextOf(Top.todo), t \in now..MaxTime :
       LET r == ExtractSigned(fs, p, Parent(p), t)
           rest == [Top EXCEPT !.todo = @ \ {p}]
           f1 == Unlink(r.fs, p)
       IN /\ ClockOk(r, t)
          /\ now' = t
          /\ calls' = calls \cup {CallRec(p, IF IsFile(fs, p) THEN fs[p] ELSE "", r)}
          /\ IF r.kind = "none" THEN Continue(fs, rest)
             ELSE IF r.kind = "raise" THEN Abort("ValueError", r.fs)
             ELSE IF SuffixLower(Name(r.payload)) = ZipSuffix
               THEN Call(f1, [rest EXCEPT !.phase = "unpacked", !.payload = r.payload],
                         Frame("unpack", Parent(r.payload),
                               RGlob(f1, Parent(r.payload), "zip"), f1))
             ELSE Continue(f1, rest)
  /\ UNCHANGED <<uploads, idx, output, prev, payload, subds, base>>

\* nuova_cartella = payload_path.parent / payload_path.stem
NuovaCartella(pl) == Append(Parent(pl), Stem(Name(pl)))

\* lines 218-227: after the unpacking, the recursive call if the folder is there
ProcAfterUnpack ==
  /\ Running /\ Top.fn = "proc" /\ Top.phase = "unpacked"
  /\ LET nuova == NuovaCartella(Top.payload)
     IN IF IsDir(fs, nuova)
          THEN Call(fs, [Top EXCEPT !.phase = "recursed"],
                    Frame("proc", nuova, RGlob(fs, nuova, "p7m"), fs))
        ELSE Continue(Unlink(fs, Top.payload),
                      [Top EXCEPT !.phase = "loop", !.payload = NoPath])
  /\ UNCHANGED <<uploads, idx, calls, output, now, prev, payload, subds, base>>

\* lines 223-227 after the recursive call returned
ProcAfterRecurse ==
  /\ Running /\ Top.fn = "proc" /\ Top.phase = "recursed"
  /\ Continue(Unlink(fs, Top.payload),
              [Top EXCEPT !.phase = "loop", !.payload = NoPath])
  /\ UNCHANGED <<uploads, idx, calls, output, now, prev, payload, subds, base>>

ProcReturn ==
  /\ Running /\ Top.fn = "proc" /\ Top.phase = "loop" /\ Top.todo = {}
  /\ stack' = SubSeq(stack, 1, Len(stack) - 1)
  /\ UNCHANGED <<fs, uploads, idx, pc, calls, output, now, exc, prev, payload,
                 subds, base>>

\* ------------------------------------------------------- the upload loop
\* shutil.copytree(src, dst): dst and everything below src, copied
CopyTree(f, src, dst) ==
  LET new == {dst \o RelativeTo(q, src) : q \in {x \in DOMAIN f : IsPrefix(src, x)}}
  IN [q \in DOMAIN f \cup new |->
        IF q \in new THEN f[src \o RelativeTo(q, dst)] ELSE f[q]]

\* lines 332-336: the one top-level folder of the upload, or the temp folder
BaseDir(f, zp) ==
  LET items == Children(f, TMPZ) \ {zp}
  IN IF Cardinality(items) = 1 /\ (\A x \in items : f[x] = DIR)
       THEN CHOOSE x \in items : TRUE ELSE TMPZ

\* target_root_for_this_zip = root_temp / zip_path.stem
TargetRoot(item) == Append(ROOT, Stem(item.name))

\* lines 313-339: an uploaded .zip is written and extracted in its temp folder
UploadZip ==
  /\ HasItem /\ SuffixLower(Cur.name) = ZipSuffix /\ ~Running
  /\ LET zp == Append(TMPZ, Cur.name)
         f1 == WriteFile(MkDir(fs, TMPZ), zp, Cur.blob)
         e == Content(Cur.blob).entries
         f2 == ExtractAll(f1, TMPZ, e)
         bd == BaseDir(f2, zp)
     IN IF ~IsZipBlob(Cur.blob)
          THEN /\ fs' = RmTree(f1, TMPZ)
               /\ idx' = idx + 1
               /\ UNCHANGED <<pc, stack, exc, base>>
        ELSE IF ExtractConflict(f1, TMPZ, e)
          THEN Abort("OSError", f1) /\ UNCHANGED <<idx, base>>
        ELSE /\ fs' = f2
             /\ base' = bd
             /\ stack' = <<Frame("unpack", bd, RGlob(f2, bd, "zip"), f2)>>
             /\ pc' = "zipUnpacked"
             /\ UNCHANGED <<idx, exc>>
  /\ prev' = RootTree(fs)
  /\ calls' = {}
  /\ UNCHANGED <<uploads, output, now, payload, subds>>

\* lines 341-347: the unpacked tree is copied below root_temp and processed
ZipCopy ==
  /\ pc = "zipUnpacked" /\ ~Running
  /\ LET target == TargetRoot(Cur)
         f1 == CopyTree(fs, base, target)
     IN IF Exists(fs, target) THEN Abort("FileExistsError", fs)
        ELSE /\ fs' = f1
             /\ stack' = <<Frame("proc", target, RGlob(f1, target, "p7m"), f1)>>
             /\ pc' = "zipProcessed"
             /\ exc' = exc
  /\ UNCHANGED <<uploads, idx, calls, output, now, prev, payload, subds, base>>

\* line 350
ZipCleanupP7m ==
  /\ pc = "zipProcessed" /\ ~Running
  /\ fs' = cleanup_unprocessed_p7m_dirs(fs, TargetRoot(Cur))
  /\ pc' = "zipCleaned"
  /\ UNCHANGED <<uploads, idx, stack, calls, output, now, exc, prev, payload,
                 subds, base>>

\* lines 353-356
ZipCleanupZipDirs ==
  /\ pc = "zipCleaned" /\ ~Running
  /\ fs' = RmTree(cleanup_extra_zip_named_dirs(fs, TargetRoot(Cur)), TMPZ)
  /\ pc' = "next"
  /\ idx' = idx + 1
  /\ UNCHANGED <<uploads, stack, calls, output, now, exc, prev, payload, subds,
                 base>>

\* lines 358-381 and 395-407: an uploaded .p7m is extracted into root_temp
UploadP7m ==
  /\ HasItem /\ SuffixLower(Cur.name) = P7mSuffix /\ ~Running
  /\ \E t \in now..MaxTime :
       LET p == Append(TMPS, Cur.name)
           f1 == WriteFile(MkDir(fs, TMPS), p, Cur.blob)
           r == ExtractSigned(f1, p, ROOT, t)
           f2 == Unlink(r.fs, p)
       IN /\ ClockOk(r, t)
          /\ now' = t
          /\ calls' = {CallRec(p, Cur.blob, r)}
          /\ IF r.kind = "none"
               THEN /\ fs' = RmTree(f1, TMPS)
                    /\ idx' = idx + 1
                    /\ UNCHANGED <<pc, stack, exc, payload>>
             ELSE IF r.kind = "raise"
               THEN Abort("ValueError", r.fs) /\ UNCHANGED <<idx, payload>>
             ELSE IF SuffixLower(Name(r.payload)) = ZipSuffix
               THEN /\ fs' = f2
                    /\ payload' = r.payload
                    /\ stack' = <<Frame("unpack", ROOT, RGlob(f2, ROOT, "zip"), f2)>>
                    /\ pc' = "p7mUnpacked"
                    /\ UNCHANGED <<idx, exc>>
             ELSE /\ fs' = RmTree(f2, TMPS)
                  /\ idx' = idx + 1
                  /\ UNCHANGED <<pc, stack, exc, payload>>
  /\ prev' = RootTree(fs)
  /\ UNCHANGED <<uploads, output, subds, base>>

\* line 383: root_temp.iterdir() lists the entries
P7mListDir ==
  /\ pc = "p7mUnpacked" /\ ~Running
  /\ subds' = Children(fs, ROOT)
  /\ pc' = "p7mLoop"
  /\ UNCHANGED <<fs, uploads, idx, stack, calls, output, now, exc, prev, payload,
                 base>>

\* lines 383-385: each entry that is a directory is processed
P7mSubdir ==
  /\ pc = "p7mLoop" /\ ~Running /\ subds # {}
  /\ \E d \in subds :
       /\ subds' = subds \ {d}
       /\ stack' = IF IsDir(fs, d)
                     THEN <<Frame("proc", d, RGlob(fs, d, "p7m"), fs)>> ELSE stack
  /\ UNCHANGED <<fs, uploads, idx, pc, calls, output, now, exc, prev, payload,
                 base>>

\* line 387
P7mCleanupP7m ==
  /\ pc = "p7mLoop" /\ ~Running /\ subds = {}
  /\ fs' = cleanup_unprocessed_p7m_dirs(fs, ROOT)
  /\ pc' = "p7mCleaned"
  /\ UNCHANGED <<uploads, idx, stack, calls, output, now, exc, prev, payload,
                 subds, base>>

\* lines 389-407
P7mCleanupZipDirs ==
  /\ pc = "p7mCleaned" /\ ~Running
  /\ fs' = RmTree(Unlink(cleanup_extra_zip_named_dirs(fs, ROOT), payload), TMPS)
  /\ pc' = "next"
  /\ idx' = idx + 1
  /\ payload' = NoPath
  /\ UNCHANGED <<uploads, stack, calls, output, now, exc, prev, subds, base>>

\* lines 409-410: any other extension is ignored
SkipItem ==
  /\ HasItem /\ ~Running
  /\ SuffixLower(Cur.name) \notin {ZipSuffix, P7mSuffix}
  /\ idx' = idx + 1
  /\ prev' = RootTree(fs)
  /\ calls' = {}
  /\ UNCHANGED <<fs, uploads, pc, stack, output, now, exc, payload, subds, base>>

\* the entries zipf.write puts in the output archive: every file below
\* root_temp whose name is not the output's own
Packaged(f) ==
  LET fl == {q \in FilesBelow(f, ROOT) : Name(q) # OutputFilename}
  IN [r \in {RelativeTo(q, ROOT) : q \in fl} |-> f[ROOT \o r]]

\* lines 412-430: the output archive is written and offered
Package ==
  /\ pc = "next" /\ idx > Len(uploads) /\ ~Running
  /\ output' = Packaged(fs)
  /\ fs' = WriteFile(fs, Append(ROOT, OutputFilename), "archive")
  /\ pc' = "done"
  /\ UNCHANGED <<uploads, idx, stack, calls, now, exc, prev, payload, subds, base>>

Next ==
  \/ UploadZip \/ ZipCopy \/ ZipCleanupP7m \/ ZipCleanupZipDirs
  \/ UploadP7m \/ P7mListDir \/ P7mSubdir \/ P7mCleanupP7m \/ P7mCleanupZipDirs
  \/ SkipItem \/ Package
  \/ UnpackStep \/ UnpackReturn
  \/ ProcStep \/ ProcAfterUnpack \/ ProcAfterRecurse \/ ProcReturn

Spec == Init /\ [][Next]_vars

Finished == pc \in {"done", "aborted"}

\* ================================================================= claims
IsEnvelopeName(n) == SuffixLower(n) = P7mSuffix
IsArchiveName(n) == SuffixLower(n) = ZipSuffix
\* a directory named by the unpack-wrapper convention, <stem>_unzipped
IsWrapperName(n) == Len(n) >= 1 /\ n[Len(n)] = "_unzipped"

\* C1: the output archive of a finished run holds no entry whose name ends
\* with .p7m.
C1_NoEnvelopeInOutput ==
  pc = "done" => \A r \in DOMAIN output : ~IsEnvelopeName(Name(r))

ScenarioB == <<Item(<<"up", DOT, "zip">>, "zB")>>

\* C2: scenario B (one ZIP whose top level holds two envelopes, each
\* wrapping a ZIP with one leaf document, all verified): the output holds
\* exactly the two documents, no .zip, no .p7m and no entry below a
\* <stem>_unzipped directory.
C2_ScenarioB ==
  (pc = "done" /\ uploads = ScenarioB) =>
    /\ Cardinality(DOMAIN output) = 2
    /\ \A r \in DOMAIN output :
         /\ Content(output[r]).type = "leaf"
         /\ ~IsEnvelopeName(Name(r))
         /\ ~IsArchiveName(Name(r))
         /\ \A i \in DOMAIN r : ~IsWrapperName(r[i])

RECURSIVE Sound(_)
\* every envelope of the content verifies and every archive is a valid ZIP
Sound(b) ==
  LET c == Content(b)
  IN CASE c.type = "p7m" ->
            c.res1 /\ c.res2 /\ c.res3 /\ c.parse /\ Sound(c.payload)
       [] c.type = "zip" ->
            \A r \in DOMAIN c.entries :
              /\ c.entries[r] # DIR => Sound(c.entries[r])
              /\ IsArchiveName(Name(r)) => c.entries[r] # DIR /\ IsZipBlob(c.entries[r])
              /\ IsEnvelopeName(Name(r)) =>
                   c.entries[r] # DIR /\ Content(c.entries[r]).type = "p7m"
       [] OTHER -> TRUE

SoundRun ==
  \A i \in DOMAIN uploads :
    /\ Sound(uploads[i].blob)
    /\ IsArchiveName(uploads[i].name) => IsZipBlob(uploads[i].blob)

\* the envelopes and archives still below a directory
Wrapped(f, dir) ==
  {q \in FilesBelow(f, dir) : IsEnvelopeName(Name(q)) \/ IsArchiveName(Name(q))}

\* C3: in a run where every envelope verifies and every archive is valid,
\* when process_directory_for_p7m(directory) returns no envelope and no
\* archive is left below directory.
C3_FullyUnwound ==
  [][(Running /\ Top.fn = "proc" /\ SoundRun /\ pc' # "aborted"
      /\ Len(stack') = Len(stack) - 1)
     => Wrapped(fs', Top.dir) = {}]_vars

\* the count of unconsumed envelopes and archives is smaller at every call
\* made from within recursive_unpack_and_flatten / process_directory_for_p7m
\* than it was when the caller was entered
StackDecreases ==
  \A i \in 1..(Len(stack) - 1) : stack[i + 1].entry < stack[i].entry

\* where the script stands, as a number that every step between two items
\* and every step within one item lowers
PcRank(p) ==
  CASE p = "next" -> 5
    [] p \in {"zipUnpacked", "p7mUnpacked"} -> 4
    [] p \in {"zipProcessed", "p7mLoop"} -> 3
    [] p \in {"zipCleaned", "p7mCleaned"} -> 2
    [] OTHER -> 0
OuterRank ==
  IF Finished THEN 0 ELSE 6 * (Len(uploads) + 1 - idx) + PcRank(pc)
PhaseRank(ph) ==
  CASE ph = "unpacked" -> 2 [] ph = "recursed" -> 1 [] OTHER -> 0
\* what a call has left to do: the elements of its snapshot not yet taken
FrameRank(fr) == 3 * Cardinality(fr.todo) + PhaseRank(fr.phase)
\* the work left, outermost first: the items, the entries of root_temp, and
\* the snapshot of every call on the stack
Rank ==
  <<OuterRank, Cardinality(subds)>> \o [i \in DOMAIN stack |-> FrameRank(stack[i])]
\* the lexicographic order, a sequence being above its proper prefixes
LexLess(a, b) ==
  \E k \in DOMAIN b :
    /\ Len(a) >= k - 1
    /\ \A j \in 1..(k - 1) : a[j] = b[j]
    /\ (Len(a) < k \/ a[k] < b[k])
\* a loop that has elements left has one that comes next
LoopAdvances == (Running /\ Top.todo # {}) => NextOf(Top.todo) # {}

\* C4: every run ends: each step of recursive_unpack_and_flatten and of
\* process_directory_for_p7m (and of the script around them) strictly lowers
\* the work left, a loop with elements left always has a next one, and each
\* recursive call is entered with strictly fewer unconsumed envelopes plus
\* archives (those still enclosed counted) than its caller was entered with.
C4_Termination ==
  [][LexLess(Rank', Rank) /\ LoopAdvances' /\ StackDecreases']_vars

\* C4's case: a call nested three deep, the processor having unpacked an
\* envelope's archive
C4_Witness ==
  /\ Len(stack) >= 3
  /\ stack[1].fn = "proc"
  /\ Top.fn = "unpack"
  /\ Top.entry < stack[1].entry

\* C5: the flatten step leaves the unpack directory with the rule no longer
\* applying (no lone sub-directory), so flattening again changes nothing.
C5_FlattenIdempotent ==
  [][(Running /\ Top.fn = "unpack" /\ Len(stack') = Len(stack) + 1)
     => LET ef == stack'[Len(stack')].dir
        IN LoneSub(fs', ef) = {} /\ Flatten(fs', ef) = fs']_vars

\* C6: a call of extract_signed_content on an envelope whose payload was
\* extracted and whose certificate was read, but whose dates do not parse,
\* returns with the payload kept and isValid = false, and the run goes on.
C6_DateParseIsLocal ==
  \A r \in calls :
    LET c == Content(r.env)
    IN (c.type = "p7m" /\ c.res1 /\ c.res2 /\ c.res3 /\ ~c.parse)
       => r.kind = "ok" /\ r.kept /\ ~r.valid /\ exc = ""

\* C7: when the run has produced its output archive, root_temp and every
\* per-upload temporary directory are gone.
C7_ScopedTree ==
  pc = "done" =>
    \A p \in DOMAIN fs : ~IsPrefix(ROOT, p) /\ ~IsPrefix(TMPZ, p) /\ ~IsPrefix(TMPS, p)

\* C8: where the payload was extracted and the certificate read and parsed,
\* isValid is exactly notBefore <= now <= notAfter (both bounds included),
\* whatever the subject and the payload, and the payload is there also
\* when isValid is false.
C8_ValidityIsDateWindow ==
  \A r \in calls :
    (r.kind = "ok" /\ r.dated) =>
      /\ r.valid = (r.nb <= r.t /\ r.t <= r.na)
      /\ r.kept
      /\ \A q \in calls :
           (q.kind = "ok" /\ q.dated /\ q.nb = r.nb /\ q.na = r.na /\ q.t = r.t)
             => q.valid = r.valid

\* C8's case: a certificate whose notAfter is before now, the payload kept
C8_Witness ==
  \E r \in calls :
    r.kind = "ok" /\ r.dated /\ r.t > r.na /\ ~r.valid /\ r.kept

\* the rule of C9: d's name ends with "zip" and a directory other than d and
\* d's parent stands beside d under d's name less those three letters
ZipDirRule(f, d) ==
  /\ EndsWithZip(Name(d))
  /\ \E s \in DOMAIN f :
       /\ f[s] = DIR /\ s # d /\ s # Parent(d)
       /\ Len(s) = Len(d) /\ Parent(s) = Parent(d)
       /\ Name(s) = DropLast3(Name(d))

CleanupScope == IF pc = "zipCleaned" THEN TargetRoot(Cur) ELSE ROOT

\* C9: cleanup_extra_zip_named_dirs removes a directory only when the rule
\* holds of it or of a directory above it; every other directory stays.
C9_OnlyRuleDirsRemoved ==
  [][(pc \in {"zipCleaned", "p7mCleaned"} /\ ~Running)
     => \A d \in DirsBelow(fs, CleanupScope) :
          d \notin DOMAIN fs'
            => \E x \in DirsBelow(fs, CleanupScope) :
                 IsPrefix(x, d) /\ ZipDirRule(fs, x)]_vars

\* C10: handling an uploaded item leaves every file and directory that
\* earlier items produced below root_temp as it was.
C10_ItemsIsolated ==
  \A p \in DOMAIN prev : p \in DOMAIN fs /\ fs[p] = prev[p]

====
